---------------------------- MODULE Spec2Model ----------------------------
(***************************************************************************)
(* Model of src/index.tsx: the KTP narrative formatter (numberToWords,     *)
(* dateToWords, toTitleCase, formatParagraph) and the upload queue / batch *)
(* processing handlers around it.                                          *)
(*                                                                         *)
(* JavaScript strings are TLA+ strings; a JSON object is a function whose  *)
(* DOMAIN is the set of keys present, so a key missing from the parsed     *)
(* JSON is a key outside the DOMAIN (reading it yields undefined).         *)
(***************************************************************************)
EXTENDS Integers, Sequences, FiniteSets, TLC

VARIABLES
    arg,                    \* argument of the function under call
    ret,                    \* its completion: [kind |-> "return" | "throw", value |-> ...]
    pc,                     \* "call" before the function ran, "done" after, "app" in the page model
    uploadedFiles,          \* let uploadedFiles: UploadedFile[]
    readers,                \* FileReaders whose loadend has not fired yet: file -> count
    batches,                \* click handlers suspended at await Promise.all
    resultList,             \* children of #result-list, in order
    resultContainerHidden,  \* #result-container has class hidden
    errorMessageHidden,     \* #error-message has class hidden
    processDisabled,        \* processButton.disabled
    resetDisabled,          \* resetButton.disabled
    resetHidden,            \* #reset-button has class hidden
    shown,                  \* history: the batch whose results displayResults rendered last
    selections              \* history: how many file selections were made

vars == <<arg, ret, pc, uploadedFiles, readers, batches, resultList,
          resultContainerHidden, errorMessageHidden, processDisabled,
          resetDisabled, resetHidden, shown, selections>>

pageVars == <<uploadedFiles, readers, batches, resultList,
              resultContainerHidden, errorMessageHidden, processDisabled,
              resetDisabled, resetHidden, shown, selections>>

-----------------------------------------------------------------------------
(* String primitives of the JavaScript runtime used by the source.         *)

Lowers == "abcdefghijklmnopqrstuvwxyz"
Uppers == "ABCDEFGHIJKLMNOPQRSTUVWXYZ"
Digits == "0123456789"

CharAt(s, i) == SubSeq(s, i, i)

IndexIn(c, alphabet) ==
    IF \E i \in 1..Len(alphabet) : CharAt(alphabet, i) = c
    THEN CHOOSE i \in 1..Len(alphabet) : CharAt(alphabet, i) = c
    ELSE 0

UpperChar(c) == IF IndexIn(c, Lowers) > 0 THEN CharAt(Uppers, IndexIn(c, Lowers)) ELSE c
LowerChar(c) == IF IndexIn(c, Uppers) > 0 THEN CharAt(Lowers, IndexIn(c, Uppers)) ELSE c

RECURSIVE toUpperCase(_)
toUpperCase(s) == IF s = "" THEN "" ELSE UpperChar(Head(s)) \o toUpperCase(Tail(s))

RECURSIVE toLowerCase(_)
toLowerCase(s) == IF s = "" THEN "" ELSE LowerChar(Head(s)) \o toLowerCase(Tail(s))

\* String.prototype.includes with a non-empty search string
includes(s, sub) ==
    \E i \in 1..(Len(s) - Len(sub) + 1) : SubSeq(s, i, i + Len(sub) - 1) = sub

IsSpace(c) == c \in {" ", "\t", "\n"}

RECURSIVE trimStart(_)
trimStart(s) == IF s # "" /\ IsSpace(Head(s)) THEN trimStart(Tail(s)) ELSE s

RECURSIVE trimEnd(_)
trimEnd(s) ==
    IF s # "" /\ IsSpace(CharAt(s, Len(s))) THEN trimEnd(SubSeq(s, 1, Len(s) - 1)) ELSE s

trim(s) == trimEnd(trimStart(s))

RECURSIVE padStart(_, _, _)
padStart(s, width, fill) == IF Len(s) >= width THEN s ELSE padStart(fill \o s, width, fill)

\* String.prototype.split with a one-character separator
RECURSIVE split(_, _)
split(s, sep) ==
    IF \E i \in 1..Len(s) : CharAt(s, i) = sep
    THEN LET i == CHOOSE k \in 1..Len(s) :
                    CharAt(s, k) = sep /\ \A j \in 1..(k - 1) : CharAt(s, j) # sep
         IN  <<SubSeq(s, 1, i - 1)>> \o split(SubSeq(s, i + 1, Len(s)), sep)
    ELSE <<s>>

-----------------------------------------------------------------------------
(* numberToWords, lines 342-363.  NaN stands for a value on which every    *)
(* comparison is false and every array index is undefined: NaN itself and  *)
(* undefined once it went through arithmetic.                              *)

NaN == 0 - 1

JsGt(x, y) == x # NaN /\ y # NaN /\ x > y
JsLt(x, y) == x # NaN /\ y # NaN /\ x < y
JsGe(x, y) == x # NaN /\ y # NaN /\ x >= y
JsFloorDiv(x, y) == IF x = NaN THEN NaN ELSE x \div y
JsMod(x, y) == IF x = NaN THEN NaN ELSE x % y

units == <<"", "satu", "dua", "tiga", "empat", "lima", "enam", "tujuh", "delapan", "sembilan">>
teens == <<"sepuluh", "sebelas", "dua belas", "tiga belas", "empat belas", "lima belas",
           "enam belas", "tujuh belas", "delapan belas", "sembilan belas">>
tens  == <<"", "", "dua puluh", "tiga puluh", "empat puluh", "lima puluh", "enam puluh",
           "tujuh puluh", "delapan puluh", "sembilan puluh">>

\* arr[i] of a zero-based JavaScript array; an index outside it reads undefined,
\* which string concatenation renders as "undefined"
At(arr, i) == IF i # NaN /\ i >= 0 /\ i < Len(arr) THEN arr[i + 1] ELSE "undefined"

\* line 360: the 20..99 remainder
TensWords(num) ==
    At(tens, JsFloorDiv(num, 10))
        \o (IF JsGt(JsMod(num, 10), 0) THEN " " \o At(units, JsMod(num, 10)) ELSE "")

\* lines 357-361: the 0..99 remainder appended to words
RemainderWords(num) ==
    IF JsGt(num, 0)
    THEN IF JsLt(num, 10) THEN At(units, num)
         ELSE IF JsLt(num, 20) THEN At(teens, num - 10)
         ELSE TensWords(num)
    ELSE ""

\* the hundreds band without the irregular "seratus"
HundredsWordsRegular(num) ==
    IF JsGt(JsFloorDiv(num, 100), 0)
    THEN At(units, JsFloorDiv(num, 100)) \o " ratus" \o " "
    ELSE ""

\* lines 353-356: the hundreds band appended to words
HundredsWords(num) ==
    IF JsGt(JsFloorDiv(num, 100), 0)
    THEN (IF JsFloorDiv(num, 100) = 1 THEN "seratus"
          ELSE At(units, JsFloorDiv(num, 100)) \o " ratus") \o " "
    ELSE ""

\* lines 353-361: what the hundreds band and the remainder append to words
BelowThousand(num) ==
    HundredsWords(num)
        \o RemainderWords(IF JsGt(JsFloorDiv(num, 100), 0) THEN JsMod(num, 100) ELSE num)

RECURSIVE numberToWords(_)

\* lines 349-352: the thousands band appended to words
ThousandsWords(num) ==
    IF JsGt(JsFloorDiv(num, 1000), 0)
    THEN (IF JsFloorDiv(num, 1000) = 1 THEN "seribu"
          ELSE numberToWords(JsFloorDiv(num, 1000)) \o " ribu") \o " "
    ELSE ""

numberToWords(num) ==
    IF num = 0 THEN "nol"
    ELSE trim(ThousandsWords(num)
              \o BelowThousand(IF JsGt(JsFloorDiv(num, 1000), 0) THEN JsMod(num, 1000) ELSE num))

-----------------------------------------------------------------------------
(* JavaScript values that may be undefined: a property read from the       *)
(* parsed JSON is a string or undefined.                                   *)

Undefined == [undefined |-> TRUE]
Str(s) == [str |-> s]

\* data.key
Get(data, key) == IF key \in DOMAIN data THEN Str(data[key]) ELSE Undefined

\* !v for a string or undefined
Falsy(v) == v = Undefined \/ v.str = ""

\* ${v} in a template literal
Show(v) == IF v = Undefined THEN "undefined" ELSE v.str

IsDigit(c) == IndexIn(c, Digits) > 0

AllDigits(s) == \A i \in 1..Len(s) : IsDigit(CharAt(s, i))

RECURSIVE DecimalValue(_)
DecimalValue(s) ==
    IF s = "" THEN 0
    ELSE 10 * DecimalValue(SubSeq(s, 1, Len(s) - 1)) + (IndexIn(CharAt(s, Len(s)), Digits) - 1)

\* Number(s) for strings of digits, letters, spaces and punctuation without
\* sign, fraction, exponent or radix prefix: surrounding white space is
\* dropped, the empty string is 0, a digit string is its value, else NaN
Number(s) ==
    IF trim(s) = "" THEN 0
    ELSE IF AllDigits(trim(s)) THEN DecimalValue(trim(s))
    ELSE NaN

-----------------------------------------------------------------------------
(* dateToWords, lines 365-377.                                             *)

months == <<"", "Januari", "Februari", "Maret", "April", "Mei", "Juni", "Juli", "Agustus",
            "September", "Oktober", "November", "Desember">>

\* line 368: element i of dateStr.split('-').map(Number) as destructured;
\* a missing element is undefined, which behaves as NaN in lines 369-373
DatePart(dateStr, i) ==
    IF i <= Len(split(dateStr, "-")) THEN Number(split(dateStr, "-")[i]) ELSE NaN

\* lines 369-372
YearInWords(year) ==
    IF JsGe(year, 2000) THEN "tahun " \o numberToWords(year) ELSE numberToWords(year)

\* lines 368-373: the body of the try block on a string
DateWordsOfString(dateStr) ==
    numberToWords(DatePart(dateStr, 1)) \o " " \o At(months, DatePart(dateStr, 2))
        \o " " \o YearInWords(DatePart(dateStr, 3))

\* the catch of line 374 runs only when dateStr.split throws, that is when
\* dateStr is undefined
dateToWords(dateStr) ==
    IF dateStr = Undefined THEN "" ELSE DateWordsOfString(dateStr.str)

-----------------------------------------------------------------------------
(* toTitleCase, lines 379-382.                                             *)

\* \w
IsWordChar(c) == IndexIn(c, Lowers) > 0 \/ IndexIn(c, Uppers) > 0 \/ IsDigit(c) \/ c = "_"

\* replace(/\b\w/g, toUpperCase) on the rest of a string whose previous
\* character is a word character or not
RECURSIVE CapitalizeFrom(_, _)
CapitalizeFrom(s, afterWordChar) ==
    IF s = "" THEN ""
    ELSE (IF IsWordChar(Head(s)) /\ ~afterWordChar THEN UpperChar(Head(s)) ELSE Head(s))
            \o CapitalizeFrom(Tail(s), IsWordChar(Head(s)))

toTitleCase(str) ==
    IF Falsy(str) THEN "" ELSE CapitalizeFrom(toLowerCase(str.str), FALSE)

-----------------------------------------------------------------------------
(* Completions of a call.                                                  *)

Return(v) == [kind |-> "return", value |-> v]
Throw(e)  == [kind |-> "throw", value |-> e]
NoRet     == [kind |-> "none", value |-> ""]

-----------------------------------------------------------------------------
(* formatParagraph, lines 385-436.                                         *)

Sentinel == "Data tidak lengkap dari salah satu KTP. Pratinjau gambar mungkin tidak jelas."

\* the salutation with the marital status tested before the gender
SalutationMaritalStatusFirst(gender, maritalStatus) ==
    IF maritalStatus = "BELUM KAWIN" THEN "Nona"
    ELSE IF includes(gender, "LAKI") THEN "Tuan" ELSE "Nyonya"

\* lines 392-396, on the upper-cased gender and marital status
Salutation(gender, maritalStatus) ==
    IF includes(gender, "LAKI") THEN "Tuan"
    ELSE IF maritalStatus = "BELUM KAWIN" THEN "Nona" ELSE "Nyonya"

\* replace(/haji/i, 'Hajjah'): without the g flag only the first match
RECURSIVE ReplaceFirstHaji(_)
ReplaceFirstHaji(s) ==
    IF Len(s) < 4 THEN s
    ELSE IF toLowerCase(SubSeq(s, 1, 4)) = "haji"
         THEN "Hajjah" \o SubSeq(s, 5, Len(s))
         ELSE Head(s) \o ReplaceFirstHaji(Tail(s))

\* replace(/haji/ig, 'Hajjah'), line 404
RECURSIVE ReplaceHaji(_)
ReplaceHaji(s) ==
    IF Len(s) < 4 THEN s
    ELSE IF toLowerCase(SubSeq(s, 1, 4)) = "haji"
         THEN "Hajjah" \o ReplaceHaji(SubSeq(s, 5, Len(s)))
         ELSE Head(s) \o ReplaceHaji(Tail(s))

\* lines 399-405: gelarDepan before it is title-cased
GelarDepan(data, gender) ==
    LET gelarDepan == trim(IF Falsy(Get(data, "gelarDepanExpanded")) THEN ""
                           ELSE data.gelarDepanExpanded)
    IN  IF includes(toLowerCase(gelarDepan), "haji") /\ includes(gender, "PEREMPUAN")
        THEN ReplaceHaji(gelarDepan)
        ELSE gelarDepan

\* the prefix and its separator added without the test of line 407
PrefixSegmentUnconditional(gelarDepan) == toTitleCase(Str(gelarDepan)) \o " "

\* lines 407-410: what the prefix adds to formattedName
PrefixSegment(gelarDepan) ==
    IF gelarDepan # "" THEN toTitleCase(Str(gelarDepan)) \o " " ELSE ""

\* lines 414-416: what the suffix adds to formattedName
SuffixSegment(data) ==
    IF ~Falsy(Get(data, "gelarBelakangExpanded"))
    THEN ", " \o toTitleCase(Get(data, "gelarBelakangExpanded"))
    ELSE ""

\* lines 398-416, data.nama being a string
FormattedName(data, gender) ==
    PrefixSegment(GelarDepan(data, gender)) \o toUpperCase(data.nama) \o SuffixSegment(data)

\* lines 421-424
Citizenship(kewarganegaraan) ==
    IF trim(toUpperCase(kewarganegaraan)) = "WNI" THEN "Warga Negara Indonesia"
    ELSE kewarganegaraan

\* line 433
FullAddress(data) ==
    "bertempat tinggal di " \o toTitleCase(Get(data, "kota")) \o ", "
        \o Show(Get(data, "alamat"))
        \o ", Rukun Tetangga " \o padStart(data.rt, 3, "0")
        \o ", Rukun Warga " \o padStart(data.rw, 3, "0")
        \o ", Kelurahan " \o toTitleCase(Get(data, "kelDesa"))
        \o ", Kecamatan " \o toTitleCase(Get(data, "kecamatan"))

\* line 435, every property dereferenced in lines 389-422 being a string
Paragraph(data) ==
    "<strong>"
        \o Salutation(toUpperCase(data.jenisKelamin), toUpperCase(data.statusPerkawinan))
        \o " " \o FormattedName(data, toUpperCase(data.jenisKelamin)) \o "</strong>"
        \o ", dilahirkan di " \o toTitleCase(Get(data, "tempatLahir"))
        \o ", tanggal " \o Show(Get(data, "tanggalLahir"))
        \o " (" \o dateToWords(Get(data, "tanggalLahir")) \o "), "
        \o toTitleCase(Get(data, "pekerjaan")) \o ", " \o FullAddress(data)
        \o ", pemegang Kartu Tanda Penduduk dengan Nomor Induk Kependudukan " \o data.nik
        \o ", " \o Citizenship(data.kewarganegaraan) \o "."

\* the properties on which a method is called without a guard, in the order
\* of the calls: lines 389, 390, 412, 419, 420, 422
Dereferenced ==
    <<"jenisKelamin", "statusPerkawinan", "nama", "rt", "rw", "kewarganegaraan">>

\* a guard that tests only for a missing nik
NikGuardUndefinedOnly(data) == Get(data, "nik") = Undefined

\* the guard of line 386
NikGuard(data) == Falsy(Get(data, "nik"))

\* the completion of formatParagraph(data): the sentinel when the guard of
\* line 386 fires, a TypeError when a method is called on undefined,
\* otherwise the paragraph
formatParagraph(data) ==
    IF NikGuard(data) THEN Return(Sentinel)
    ELSE IF \E i \in 1..Len(Dereferenced) : Dereferenced[i] \notin DOMAIN data
         THEN Throw("TypeError")
         ELSE Return(Paragraph(data))

\* a complete response of the extraction service
Base ==
    [nik |-> "3201", nama |-> "siti aminah", tempatLahir |-> "KOTA bandung",
     tanggalLahir |-> "17-08-1945", jenisKelamin |-> "PEREMPUAN", alamat |-> "Jalan Merdeka 1",
     rt |-> "5", rw |-> "12", kelDesa |-> "sukamaju", kecamatan |-> "cicendo",
     kota |-> "BANDUNG", statusPerkawinan |-> "KAWIN", pekerjaan |-> "guru",
     kewarganegaraan |-> "wni", gelarDepanExpanded |-> "", gelarBelakangExpanded |-> ""]

\* a response that lacks one key
Without(data, key) == [k \in (DOMAIN data) \ {key} |-> data[k]]

-----------------------------------------------------------------------------
(* The page: the upload queue, the FileReaders and the click handlers of   *)
(* lines 55-133 and 206-330.  A file stands for the image it holds.        *)

MAX_FILES == 10

\* the file selections a behaviour makes are capped; readers, batches and
\* queue lengths follow from it
MaxSelections == 2

Files == {"a", "b", "c"}

NoBatch == [files |-> <<>>, overtaken |-> FALSE]

\* line 30, and the classes and flags resetApp (lines 275-285) establishes:
\* the markup that sets them at load time is not part of the source
PageInit ==
    /\ uploadedFiles = <<>>
    /\ readers = [f \in Files |-> 0]
    /\ batches = <<>>
    /\ resultList = <<>>
    /\ resultContainerHidden = TRUE
    /\ errorMessageHidden = TRUE
    /\ processDisabled = TRUE
    /\ resetDisabled = FALSE
    /\ resetHidden = TRUE
    /\ shown = NoBatch
    /\ selections = 0

Pending == [pending |-> TRUE]

\* what callGeminiApi (lines 166-204) resolves to for each image: a woman
\* with a Haji prefix, an unmarried man, and a response without jenisKelamin
KtpOf(file) ==
    CASE file = "a" -> [Base EXCEPT !.gelarDepanExpanded = "Haji"]
      [] file = "b" -> [Base EXCEPT !.nik = "3202", !.nama = "budi", !.jenisKelamin = "LAKI-LAKI",
                                    !.statusPerkawinan = "BELUM KAWIN"]
      [] file = "c" -> Without([Base EXCEPT !.nik = "3203", !.nama = "cici"], "jenisKelamin")

RECURSIVE StartReaders(_, _)
\* lines 223-264: one FileReader started per file
StartReaders(rs, files) ==
    IF files = <<>> THEN rs
    ELSE StartReaders([rs EXCEPT ![Head(files)] = @ + 1], Tail(files))

\* handleNewFileSelection, lines 207-211, called by the drop, change and
\* paste listeners (lines 67-107) with a non-empty list: resetApp, then
\* addFilesToQueue (lines 214-270) on the emptied queue
HandleNewFileSelection(files) ==
    /\ pc = "app"
    /\ files # <<>>
    /\ selections < MaxSelections
    /\ selections' = selections + 1
    /\ uploadedFiles' = <<>>
    /\ resultList' = <<>>
    /\ shown' = NoBatch
    /\ IF Len(uploadedFiles') + Len(files) > MAX_FILES
       THEN \* showError and return, lines 215-219
            /\ errorMessageHidden' = FALSE
            /\ resultContainerHidden' = TRUE
            /\ processDisabled' = TRUE
            /\ resetHidden' = TRUE
            /\ readers' = readers
       ELSE /\ errorMessageHidden' = TRUE
            /\ resultContainerHidden' = TRUE
            /\ processDisabled' = FALSE
            /\ resetHidden' = FALSE
            /\ readers' = StartReaders(readers, files)
    /\ UNCHANGED <<arg, ret, pc, batches, resetDisabled>>

\* reader.onloadend, lines 226-256: the file joins whatever array
\* uploadedFiles names now; a result that cannot be parsed shows an error
ReaderLoadEnd(file, parsed) ==
    /\ pc = "app"
    /\ readers[file] > 0
    /\ readers' = [readers EXCEPT ![file] = @ - 1]
    /\ IF parsed
       THEN /\ uploadedFiles' = Append(uploadedFiles, file)
            /\ UNCHANGED <<errorMessageHidden, resultContainerHidden>>
       ELSE /\ errorMessageHidden' = FALSE
            /\ resultContainerHidden' = TRUE
            /\ UNCHANGED uploadedFiles
    /\ UNCHANGED <<arg, ret, pc, batches, resultList, processDisabled, resetDisabled,
                   resetHidden, shown, selections>>

\* the reset button, line 133: resetApp, lines 275-285
ClickReset ==
    /\ pc = "app"
    /\ ~resetDisabled
    /\ ~resetHidden
    /\ uploadedFiles' = <<>>
    /\ resultList' = <<>>
    /\ shown' = NoBatch
    /\ resultContainerHidden' = TRUE
    /\ errorMessageHidden' = TRUE
    /\ processDisabled' = TRUE
    /\ resetHidden' = TRUE
    /\ UNCHANGED <<arg, ret, pc, readers, batches, resetDisabled, selections>>

\* the process button, lines 111-119, up to await Promise.all: one call per
\* queued file, in queue order
ClickProcess ==
    /\ pc = "app"
    /\ ~processDisabled
    /\ IF Len(uploadedFiles) = 0
       THEN \* showError and return, lines 112-115
            /\ errorMessageHidden' = FALSE
            /\ resultContainerHidden' = TRUE
            /\ UNCHANGED <<batches, processDisabled, resetDisabled>>
       ELSE \* setLoadingState(true), lines 289-295
            /\ processDisabled' = TRUE
            /\ resetDisabled' = TRUE
            /\ resultContainerHidden' = TRUE
            /\ errorMessageHidden' = TRUE
            /\ batches' = Append(batches,
                    [files   |-> uploadedFiles,
                     results |-> [i \in 1..Len(uploadedFiles) |-> Pending],
                     overtaken |-> FALSE])
    /\ UNCHANGED <<arg, ret, pc, uploadedFiles, readers, resultList, resetHidden, shown,
                   selections>>

\* results gathered in the order the calls complete
CollectInCompletionOrder(results, i, value) ==
    LET slot == CHOOSE k \in 1..Len(results) :
                    results[k] = Pending /\ \A j \in 1..(k - 1) : results[j] # Pending
    IN  [results EXCEPT ![slot] = value]

\* Promise.all, line 122: the value of the i-th promise is the i-th result
Collect(results, i, value) == [results EXCEPT ![i] = value]

RemoveAt(seq, k) == SubSeq(seq, 1, k - 1) \o SubSeq(seq, k + 1, Len(seq))

\* formatParagraph on each response the service gives, tabulated
Formatted == [data \in {KtpOf(f) : f \in Files} |-> formatParagraph(data)]

\* displayResults, lines 311-324: the paragraphs appended before
\* formatParagraph throws, all of them when it does not
RECURSIVE Rendered(_)
Rendered(results) ==
    IF results = <<>> \/ Formatted[Head(results)].kind = "throw" THEN <<>>
    ELSE <<Formatted[Head(results)].value>> \o Rendered(Tail(results))

\* a call of callGeminiApi resolves (line 203).  When it is the last of its
\* batch the handler resumes at line 123 in the same turn: displayResults,
\* the catch of lines 124-126 when formatParagraph throws, and
\* setLoadingState(false)
ApiFulfil(b, i) ==
    /\ pc = "app"
    /\ b \in 1..Len(batches)
    /\ i \in 1..Len(batches[b].files)
    /\ batches[b].results[i] = Pending
    /\ LET results   == Collect(batches[b].results, i, KtpOf(batches[b].files[i]))
           \* history: a later call completed before an earlier one
           overtaken == batches[b].overtaken
                            \/ \E j \in 1..(i - 1) : batches[b].results[j] = Pending
       IN  IF \E k \in 1..Len(results) : results[k] = Pending
           THEN /\ batches' = [batches EXCEPT ![b].results = results,
                                              ![b].overtaken = overtaken]
                /\ UNCHANGED <<resultList, resultContainerHidden, errorMessageHidden,
                               processDisabled, resetDisabled, shown>>
           ELSE /\ batches' = RemoveAt(batches, b)
                /\ resultList' = Rendered(results)
                /\ shown' = [files |-> batches[b].files, overtaken |-> overtaken]
                /\ IF Len(Rendered(results)) < Len(results)
                   THEN errorMessageHidden' = FALSE /\ resultContainerHidden' = TRUE
                   ELSE errorMessageHidden' = TRUE /\ resultContainerHidden' = FALSE
                /\ processDisabled' = FALSE
                /\ resetDisabled' = FALSE
    /\ UNCHANGED <<arg, ret, pc, uploadedFiles, readers, resetHidden, selections>>

\* a call of callGeminiApi rejects (the request fails, or JSON.parse throws):
\* Promise.all rejects at once, lines 124-129 run, and the batch is over
ApiReject(b, i) ==
    /\ pc = "app"
    /\ b \in 1..Len(batches)
    /\ i \in 1..Len(batches[b].files)
    /\ batches[b].results[i] = Pending
    /\ batches' = RemoveAt(batches, b)
    /\ errorMessageHidden' = FALSE
    /\ resultContainerHidden' = TRUE
    /\ processDisabled' = FALSE
    /\ resetDisabled' = FALSE
    /\ UNCHANGED <<arg, ret, pc, uploadedFiles, readers, resultList, resetHidden, shown,
                   selections>>

-----------------------------------------------------------------------------
(* numberToWords applied to bounded inputs.                                *)

MaxNum == 20000
MaxThousands == 12

\* every number up to MaxNum, every band boundary, and every remainder under
\* a sample of thousands bands up to 999
ThousandsSamples == (1..MaxThousands) \cup {19, 20, 21, 99, 100, 101, 110, 111, 500, 999}
RemainderSamples == (0..21) \cup {99, 100, 101, 110, 111, 119, 120, 199, 200, 201, 900, 999}
NumberInputs ==
    (0..MaxNum) \cup {t * 1000 + r : t \in ThousandsSamples, r \in RemainderSamples}

InitNumber ==
    /\ arg \in NumberInputs
    /\ ret = NoRet
    /\ pc = "call"
    /\ PageInit

CallNumberToWords ==
    /\ pc = "call"
    /\ ret' = Return(numberToWords(arg))
    /\ pc' = "done"
    /\ UNCHANGED <<arg, pageVars>>

NextNumber == CallNumberToWords

SpecNumber == InitNumber /\ [][NextNumber]_vars

-----------------------------------------------------------------------------
(* Reference Indonesian spelling: the words of each band, joined by one    *)
(* space.                                                                  *)

RefUnit(d) ==
    CASE d = 1 -> "satu"  [] d = 2 -> "dua"   [] d = 3 -> "tiga"
      [] d = 4 -> "empat" [] d = 5 -> "lima"  [] d = 6 -> "enam"
      [] d = 7 -> "tujuh" [] d = 8 -> "delapan" [] d = 9 -> "sembilan"

\* 1..99
RefBelowHundred(r) ==
    IF r < 10 THEN <<RefUnit(r)>>
    ELSE IF r = 10 THEN <<"sepuluh">>
    ELSE IF r = 11 THEN <<"sebelas">>
    ELSE IF r < 20 THEN <<RefUnit(r - 10), "belas">>
    ELSE <<RefUnit(r \div 10), "puluh">> \o (IF r % 10 = 0 THEN <<>> ELSE <<RefUnit(r % 10)>>)

\* 0..999, no word for a zero band
RefBelowThousand(n) ==
    (IF n \div 100 = 0 THEN <<>>
     ELSE IF n \div 100 = 1 THEN <<"seratus">>
     ELSE <<RefUnit(n \div 100), "ratus">>)
    \o (IF n % 100 = 0 THEN <<>> ELSE RefBelowHundred(n % 100))

\* 1..999999
RefWords(n) ==
    (IF n \div 1000 = 0 THEN <<>>
     ELSE IF n \div 1000 = 1 THEN <<"seribu">>
     ELSE RefBelowThousand(n \div 1000) \o <<"ribu">>)
    \o RefBelowThousand(n % 1000)

RECURSIVE JoinWords(_)
JoinWords(ws) ==
    IF ws = <<>> THEN ""
    ELSE IF Len(ws) = 1 THEN ws[1]
    ELSE ws[1] \o " " \o JoinWords(Tail(ws))

RefSpell(n) == IF n = 0 THEN "nol" ELSE JoinWords(RefWords(n))

SingleSpaced(s) ==
    /\ s # ""
    /\ CharAt(s, 1) # " "
    /\ CharAt(s, Len(s)) # " "
    /\ ~includes(s, "  ")

\* C5: for every n in 0..999999 numberToWords(n) is the reference spelling:
\* "nol" for 0, "seribu"/"seratus" for a band of exactly one, no segment for
\* a zero band, segments separated by exactly one space, never empty, no
\* leading, trailing or doubled space.
C5_NumberToWordsIsReference ==
    (pc = "done" /\ arg \in 0..999999) =>
        /\ ret = Return(RefSpell(arg))
        /\ SingleSpaced(ret.value)

C5_Witness ==
    /\ pc = "done"
    /\ arg = 2024
    /\ ret = Return("dua ribu dua puluh empat")

-----------------------------------------------------------------------------
(* dateToWords applied to bounded inputs: every combination of the day,    *)
(* month and year strings below, and strings of other shapes.              *)

DayStrings   == {"01", "1", "17", "31", "xx", ""}
MonthStrings == {"00", "01", "08", "12", "13", "1", "ab", ""}
YearStrings  == {"1945", "1999", "2000", "2024", "yyyy", ""}
OtherDateStrings ==
    {"not-a-date", "", "17081945", "17/08/1945", "17-08", "17-08-1945-01", "--", " 17 - 08 - 1945 "}

DateInputs ==
    {Str(d \o "-" \o m \o "-" \o y) : d \in DayStrings, m \in MonthStrings, y \in YearStrings}
        \cup {Str(x) : x \in OtherDateStrings}
        \cup {Undefined}

InitDate ==
    /\ arg \in DateInputs
    /\ ret = NoRet
    /\ pc = "call"
    /\ PageInit

CallDateToWords ==
    /\ pc = "call"
    /\ ret' = Return(dateToWords(arg))
    /\ pc' = "done"
    /\ UNCHANGED <<arg, pageVars>>

NextDate == CallDateToWords

SpecDate == InitDate /\ [][NextDate]_vars

\* the three cases of a string that is not a well-formed DD-MM-YYYY date
NotThreeComponents(s) == Len(split(s, "-")) # 3
ComponentNotNumeric(s) == \E i \in 1..Len(split(s, "-")) : Number(split(s, "-")[i]) = NaN
MonthOutOfRange(s) == Len(split(s, "-")) >= 2 /\ Number(split(s, "-")[2]) \notin 1..12

\* C3: dateToWords returns the empty string for every string that is not a
\* well-formed DD-MM-YYYY date: not three components, a component that is
\* not a number, or a month outside 1..12.
C3_MalformedDateYieldsEmpty ==
    (/\ pc = "done"
     /\ arg # Undefined
     /\ (NotThreeComponents(arg.str) \/ ComponentNotNumeric(arg.str) \/ MonthOutOfRange(arg.str)))
        => ret = Return("")

-----------------------------------------------------------------------------
(* formatParagraph applied to bounded inputs: records as JSON.parse may    *)
(* deliver them, every field a string or missing.                          *)

NikStrings     == {"", "3201"}
GenderStrings  ==
    {"LAKI-LAKI", "laki-laki", "Laki-Laki", "PEREMPUAN", "perempuan", "Perempuan", "", "WANITA"}
MaritalStrings ==
    {"BELUM KAWIN", "belum kawin", "Belum Kawin", "KAWIN", "CERAI HIDUP", "", "BELUM KAWIN ", "?"}
PrefixStrings  ==
    {"", "  ", "Haji", "HAJI", " haji ", "haji HAJI", "hajiaji", "profesor DOKTOR", "Doktor Haji"}
SuffixStrings  == {"", "sarjana HUKUM", "S.Kom., M.T."}

\* the keys a response may lack: none of them is required by the response
\* schema of lines 167-187
Keys == DOMAIN Base

FullRecords ==
    {[Base EXCEPT !.nik = n, !.jenisKelamin = g, !.statusPerkawinan = m,
                  !.gelarDepanExpanded = p, !.gelarBelakangExpanded = x] :
        n \in NikStrings, g \in GenderStrings, m \in MaritalStrings,
        p \in PrefixStrings, x \in SuffixStrings}

\* the records from which one key is taken away
PartialRecords ==
    {Without(d, k) :
        d \in {r \in FullRecords :
                /\ r.jenisKelamin \in {"LAKI-LAKI", "perempuan"}
                /\ r.statusPerkawinan \in {"KAWIN", "belum kawin"}
                /\ r.gelarDepanExpanded \in {"", "Haji"}
                /\ r.gelarBelakangExpanded \in {"", "sarjana HUKUM"}},
        k \in Keys}

FormatInputs == FullRecords \cup PartialRecords

InitFormat ==
    /\ arg \in FormatInputs
    /\ ret = NoRet
    /\ pc = "call"
    /\ PageInit

CallFormatParagraph ==
    /\ pc = "call"
    /\ ret' = formatParagraph(arg)
    /\ pc' = "done"
    /\ UNCHANGED <<arg, pageVars>>

NextFormat == CallFormatParagraph

SpecFormat == InitFormat /\ [][NextFormat]_vars

-----------------------------------------------------------------------------
(* What the claims say of a returned paragraph, stated on the input        *)
(* record and the returned string.                                         *)

StartsWith(s, p) == SubSeq(s, 1, Len(p)) = p
EndsWith(s, p) == Len(p) <= Len(s) /\ SubSeq(s, Len(s) - Len(p) + 1, Len(s)) = p

EqualsIgnoreCase(s, t) ==
    /\ Len(s) = Len(t)
    /\ \A j \in 1..Len(t) : LowerChar(CharAt(s, j)) = LowerChar(CharAt(t, j))

ContainsIgnoreCase(s, sub) ==
    \E i \in 1..(Len(s) - Len(sub) + 1) : EqualsIgnoreCase(SubSeq(s, i, i + Len(sub) - 1), sub)

NikEmpty(data) == "nik" \notin DOMAIN data \/ data.nik = ""

\* formatParagraph returned the narrative sentence
Narrative == pc = "done" /\ ~NikEmpty(arg) /\ ret.kind = "return"

\* a field that may be missing, as the string it stands for
Optional(data, key) == IF key \in DOMAIN data THEN data[key] ELSE ""

ExpectedSalutation(data) ==
    IF ContainsIgnoreCase(data.jenisKelamin, "LAKI") THEN "Tuan"
    ELSE IF EqualsIgnoreCase(data.statusPerkawinan, "BELUM KAWIN") THEN "Nona"
    ELSE "Nyonya"

\* the text between "<strong>salutation " and "</strong>"
NameBlock(paragraph) ==
    LET from == CHOOSE i \in 1..Len(paragraph) :
                    CharAt(paragraph, i) = " " /\ \A j \in 1..(i - 1) : CharAt(paragraph, j) # " "
        to   == CHOOSE i \in 1..Len(paragraph) :
                    /\ SubSeq(paragraph, i, i + 8) = "</strong>"
                    /\ \A j \in 1..(i - 1) : SubSeq(paragraph, j, j + 8) # "</strong>"
    IN  SubSeq(paragraph, from + 1, to - 1)

\* C1: for a record with a non-empty nik the salutation is "Tuan" whenever
\* gender contains "LAKI" in any letter case, whatever the marital status;
\* otherwise "Nona" exactly when the marital status equals "BELUM KAWIN"
\* ignoring case, and "Nyonya" for every other marital status.
C1_SalutationByGenderThenMaritalStatus ==
    Narrative => StartsWith(ret.value, "<strong>" \o ExpectedSalutation(arg) \o " ")

C1_Witness ==
    /\ Narrative
    /\ arg.jenisKelamin = "Laki-Laki"
    /\ arg.statusPerkawinan = "belum kawin"
    /\ StartsWith(ret.value, "<strong>Tuan ")

\* C2: for a record whose nik is empty (or absent) formatParagraph returns
\* exactly the sentinel, whatever the other fields are, and no field of the
\* record is rendered.
C2_EmptyNikYieldsSentinel ==
    (pc = "done" /\ NikEmpty(arg)) =>
        /\ ret = Return(Sentinel)
        /\ "nama" \in DOMAIN arg => ~includes(ret.value, toUpperCase(arg.nama))

C2_Witness ==
    /\ pc = "done"
    /\ "nik" \in DOMAIN arg
    /\ arg.nik = ""
    /\ "jenisKelamin" \notin DOMAIN arg
    /\ ret = Return(Sentinel)

\* C4: formatParagraph never raises: for every record, with any field
\* empty, missing or wrongly cased, it returns a string.
C4_FormatParagraphNeverRaises ==
    pc = "done" => ret.kind = "return"

\* every occurrence of "haji", in any case, replaced by "Hajjah": position
\* by position, an occurrence starts at i when the four characters from i
\* are "haji" ignoring case
HajiAt(s, i) == i >= 1 /\ i + 3 <= Len(s) /\ EqualsIgnoreCase(SubSeq(s, i, i + 3), "haji")

RECURSIVE EveryHajiReplacedFrom(_, _)
EveryHajiReplacedFrom(s, i) ==
    IF i > Len(s) THEN ""
    ELSE (IF HajiAt(s, i) THEN "Hajjah"
          ELSE IF HajiAt(s, i - 1) \/ HajiAt(s, i - 2) \/ HajiAt(s, i - 3) THEN ""
          ELSE CharAt(s, i))
         \o EveryHajiReplacedFrom(s, i + 1)

\* the prefix the claim expects before title-casing
ExpectedPrefix(data) ==
    LET prefix == trim(Optional(data, "gelarDepanExpanded"))
    IN  IF ContainsIgnoreCase(prefix, "haji") /\ ContainsIgnoreCase(data.jenisKelamin, "PEREMPUAN")
        THEN EveryHajiReplacedFrom(prefix, 1)
        ELSE prefix

Female(data) == ContainsIgnoreCase(data.jenisKelamin, "PEREMPUAN")

\* C6: when the trimmed prefix contains "haji" in any case and gender
\* contains "PEREMPUAN", every occurrence of "haji" is replaced by "Hajjah"
\* before title-casing and no "Haji" remains in the rendered prefix;
\* otherwise the prefix is rendered title-cased without substitution.
C6_HajiBecomesHajjahForFemale ==
    Narrative =>
        LET block    == NameBlock(ret.value)
            rendered == toTitleCase(Str(ExpectedPrefix(arg)))
        IN  /\ StartsWith(block, rendered)
            /\ rendered # "" => CharAt(block, Len(rendered) + 1) = " "
            /\ Female(arg) => ~includes(SubSeq(block, 1, Len(rendered)), "Haji")

C6_Witness ==
    /\ Narrative
    /\ Optional(arg, "gelarDepanExpanded") = "haji HAJI"
    /\ arg.jenisKelamin = "perempuan"
    /\ StartsWith(NameBlock(ret.value), "Hajjah Hajjah SITI")

\* C7: the name block is [TitleCase(prefix) + " "]? + UPPERCASE(name) +
\* [", " + TitleCase(suffix)]?: an empty or white-space prefix contributes
\* nothing, so the block starts with the upper-cased name; an empty suffix
\* contributes nothing, so the block ends with the upper-cased name.
C7_NameBlockOmitsEmptyHonorifics ==
    Narrative =>
        LET block  == NameBlock(ret.value)
            name   == toUpperCase(arg.nama)
            prefix == ExpectedPrefix(arg)
            suffix == Optional(arg, "gelarBelakangExpanded")
        IN  /\ prefix = "" => StartsWith(block, name)
            /\ prefix # "" => StartsWith(block, toTitleCase(Str(prefix)) \o " " \o name)
            /\ suffix = "" => EndsWith(block, name)
            /\ suffix # "" => EndsWith(block, name \o ", " \o toTitleCase(Str(suffix)))
            /\ Len(block) = (IF prefix = "" THEN 0 ELSE Len(prefix) + 1) + Len(name)
                                + (IF suffix = "" THEN 0 ELSE Len(suffix) + 2)

C7_Witness ==
    /\ Narrative
    /\ Optional(arg, "gelarDepanExpanded") = "  "
    /\ Optional(arg, "gelarBelakangExpanded") = ""
    /\ NameBlock(ret.value) = "SITI AMINAH"

-----------------------------------------------------------------------------
(* The page under selections of one or two files, with the process button. *)

\* the selections: a pair of files whose narratives differ, and a file whose
\* response makes formatParagraph throw
FileLists == {<<"a", "b">>, <<"c">>}

Init ==
    /\ arg = Undefined
    /\ ret = NoRet
    /\ pc = "app"
    /\ PageInit

Next ==
    \/ \E files \in FileLists : HandleNewFileSelection(files)
    \/ \E file \in Files, parsed \in BOOLEAN : ReaderLoadEnd(file, parsed)
    \/ ClickReset
    \/ ClickProcess
    \/ \E b \in 1..Len(batches), i \in 1..MAX_FILES : ApiFulfil(b, i)
    \/ \E b \in 1..Len(batches), i \in 1..MAX_FILES : ApiReject(b, i)

Spec == Init /\ [][Next]_vars

\* the narrative of the extraction result of a file
NarrativeOf(file) == Formatted[KtpOf(file)].value

\* C8: the calls of a batch complete in any order, yet the i-th displayed
\* narrative is the formatting of the extraction result of the i-th file of
\* the batch: what is in the result list is in the order of the batch, and
\* what is displayed is the whole batch.
C8_DisplayedOrderIsQueueOrder ==
    /\ Len(resultList) <= Len(shown.files)
    /\ \A i \in 1..Len(resultList) : resultList[i] = NarrativeOf(shown.files[i])
    /\ ~resultContainerHidden => Len(resultList) = Len(shown.files)

C8_Witness ==
    /\ ~resultContainerHidden
    /\ shown = [files |-> <<"a", "b">>, overtaken |-> TRUE]
    /\ resultList = <<NarrativeOf("a"), NarrativeOf("b")>>

\* C10: whenever results are displayed they are the extraction results of
\* exactly the files now in the upload queue.
C10_DisplayedResultsAreOfCurrentQueue ==
    ~resultContainerHidden =>
        /\ Len(resultList) = Len(uploadedFiles)
        /\ \A i \in 1..Len(resultList) : resultList[i] = NarrativeOf(uploadedFiles[i])

-----------------------------------------------------------------------------
(* The queue alone under selections of up to MAX_FILES + 1 files.          *)

QueueFileLists ==
    {[i \in 1..n |-> "a"] : n \in {1, 2, MAX_FILES, MAX_FILES + 1}} \cup {<<"b">>}

NextQueue ==
    \/ \E files \in QueueFileLists : HandleNewFileSelection(files)
    \/ \E file \in Files, parsed \in BOOLEAN : ReaderLoadEnd(file, parsed)
    \/ ClickReset

SpecQueue == Init /\ [][NextQueue]_vars

\* C9: the upload queue never holds more than MAX_FILES entries, whatever
\* the interleaving of selections, resets and FileReader completions.
C9_QueueWithinMaxFiles == Len(uploadedFiles) <= MAX_FILES

=============================================================================
